---- MODULE Spec2Model ----
(***************************************************************************)
(* Model of the vehicle background-swap application: the App component     *)
(* (upload, extraction, placement, scale, generate) and the contain-fit    *)
(* coordinate mapping that handleGenerate performs before compositing.     *)
(***************************************************************************)
EXTENDS Integers, Sequences, FiniteSets, TLC

(***************************************************************************)
(* Bounds of the model.                                                    *)
(***************************************************************************)
\* JavaScript numbers are IEEE-754 binary64 (53 significant bits, round to
\* nearest, ties to even).  The model keeps the same rounding rule with
\* MantBits significant bits; exponents are unbounded.
MantBits == 10
\* native and box sizes enumerated for the mapping, 1..MaxDim
MaxDim == 11

\* files picked in one run (ImageUploader.handleFile calls)
MaxUploads == 3

\* widths and heights, in pixels, of the image ImageDisplay renders, 1..MaxPx
MaxPx == 10

(***************************************************************************)
(* JavaScript Number arithmetic.  A number is a rational [n, d] in lowest  *)
(* terms with d > 0; every operation rounds its exact result to MantBits   *)
(* significant bits.                                                       *)
(***************************************************************************)
Pow2[k \in Int] == IF k <= 0 THEN 1 ELSE 2 * Pow2[k - 1]

Abs(x) == IF x < 0 THEN -x ELSE x

Gcd[a \in Nat, b \in Nat] == IF b = 0 THEN a ELSE Gcd[b, a % b]

\* a Number: a rational n/d in lowest terms, d > 0, that MantBits significant
\* bits represent
Number == [n : Int, d : Nat \ {0}]

Num(k) == [n |-> k, d |-> 1]

Negate(a) == [n |-> -a.n, d |-> a.d]

\* n/d with both divided by g, the denominator made positive
ReduceBy[n \in Int, d \in Int, g \in Int] ==
    [n |-> (IF d < 0 THEN -1 ELSE 1) * (IF n < 0 THEN -(Abs(n) \div g) ELSE n \div g),
     d |-> Abs(d) \div g]

\* the rational n/d (d # 0) in lowest terms with a positive denominator
Reduce[n \in Int, d \in Int] == ReduceBy[n, d, Gcd[Abs(n), Abs(d)]]

\* the exponent e and the fraction N/D with 2^(MantBits-1) <= N/D < 2^MantBits,
\* N/D * 2^e being the number scaled (N, D > 0)
Scaled[e \in Int, N \in Nat, D \in Nat] ==
    IF N \div Pow2[MantBits] >= D
    THEN IF N % 2 = 0 THEN Scaled[e + 1, N \div 2, D] ELSE Scaled[e + 1, N, 2 * D]
    ELSE IF N \div Pow2[MantBits - 1] < D
    THEN IF D % 2 = 0 THEN Scaled[e - 1, N, D \div 2] ELSE Scaled[e - 1, 2 * N, D]
    ELSE [e |-> e, N |-> N, D |-> D]

\* m * 2^e in lowest terms
Shifted[m \in Nat, e \in Int] ==
    IF e < 0 /\ m % 2 = 0 THEN Shifted[m \div 2, e + 1]
    ELSE IF e < 0 THEN [n |-> m, d |-> Pow2[-e]]
    ELSE [n |-> m * Pow2[e], d |-> 1]

\* the mantissa m0 with remainder r/D, rounded to nearest, ties to even, times 2^e
Nearest[m0 \in Nat, r \in Nat, D \in Nat, e \in Int] ==
    Shifted[IF 2 * r > D \/ (2 * r = D /\ m0 % 2 = 1) THEN m0 + 1 ELSE m0, e]

RoundScaled(s) == Nearest[s.N \div s.D, s.N % s.D, s.D, s.e]

\* n/d (n, d > 0) rounded to MantBits significant bits
RoundPos[n \in Nat, d \in Nat] == RoundScaled(Scaled[0, n, d])

\* the exact rational q rounded to a Number
RoundReduced[q \in Number] ==
    IF q.n = 0 THEN Num(0)
    ELSE IF q.n < 0 THEN Negate(RoundPos[-q.n, q.d]) ELSE RoundPos[q.n, q.d]

\* the exact rational n/d (d # 0) rounded to a Number
Round[n \in Int, d \in Int] == RoundReduced[Reduce[n, d]]

Inverse(b) == IF b.n < 0 THEN [n |-> -b.d, d |-> -b.n] ELSE [n |-> b.d, d |-> b.n]

\* the exact product of p and q, g1 and g2 being the common factors across them
ProductBy[p \in Number, q \in Number, g1 \in Nat, g2 \in Nat] ==
    [n |-> (IF p.n < 0 THEN -(Abs(p.n) \div g1) ELSE p.n \div g1)
               * (IF q.n < 0 THEN -(Abs(q.n) \div g2) ELSE q.n \div g2),
     d |-> (p.d \div g2) * (q.d \div g1)]

Product[p \in Number, q \in Number] ==
    ProductBy[p, q, Gcd[Abs(p.n), q.d], Gcd[Abs(q.n), p.d]]

\* the exact difference of a and b, g being the common factor of the denominators
DifferenceBy[a \in Number, b \in Number, g \in Nat] ==
    Reduce[a.n * (b.d \div g) - b.n * (a.d \div g), (a.d \div g) * b.d]

Difference[a \in Number, b \in Number] == DifferenceBy[a, b, Gcd[a.d, b.d]]

NumDiv[a \in Number, b \in Number] == RoundReduced[Product[a, Inverse(b)]]
NumMul[a \in Number, b \in Number] == RoundReduced[Product[a, b]]
NumSub[a \in Number, b \in Number] == RoundReduced[Difference[a, b]]
NumAdd(a, b) == NumSub[a, Negate(b)]
NumGt(a, b)  == a.n * b.d > b.n * a.d
NumLe(a, b)  == a.n * b.d <= b.n * a.d
NumGe(a, b)  == NumLe(b, a)

(***************************************************************************)
(* handleGenerate: mapping of the render-space pin to the background's     *)
(* native pixels (contain fit).                                            *)
(***************************************************************************)
\* lines 128-129, with the fitted size
Padded(renderedWidth, renderedHeight, actualRenderedWidth, actualRenderedHeight) ==
    [actualRenderedWidth  |-> actualRenderedWidth,
     actualRenderedHeight |-> actualRenderedHeight,
     paddingX |-> NumDiv[NumSub[Num(renderedWidth), actualRenderedWidth], Num(2)],
     paddingY |-> NumDiv[NumSub[Num(renderedHeight), actualRenderedHeight], Num(2)]]

\* faulty variant of Fitted: the else branch taken whatever the aspect ratios
FittedAlwaysHeight(renderedWidth, renderedHeight, originalAspectRatio, containerAspectRatio) ==
    Padded(renderedWidth, renderedHeight,
           NumMul[Num(renderedHeight), originalAspectRatio], Num(renderedHeight))

\* lines 119-126
Fitted(renderedWidth, renderedHeight, originalAspectRatio, containerAspectRatio) ==
    IF NumGt(originalAspectRatio, containerAspectRatio)
    THEN Padded(renderedWidth, renderedHeight,
                Num(renderedWidth), NumDiv[Num(renderedWidth), originalAspectRatio])
    ELSE Padded(renderedWidth, renderedHeight,
                NumMul[Num(renderedHeight), originalAspectRatio], Num(renderedHeight))

\* lines 116-129: the size the image is drawn at in its box, and the padding
ContainFit(originalWidth, originalHeight, renderedWidth, renderedHeight) ==
    Fitted(renderedWidth, renderedHeight,
           NumDiv[Num(originalWidth), Num(originalHeight)],
           NumDiv[Num(renderedWidth), Num(renderedHeight)])

\* faulty variant of PinOnImage: the padding is not subtracted from the pin
PinOnImageNoPadding(pin, originalWidth, originalHeight, fit) ==
    [finalX |-> NumMul[NumDiv[Num(pin.x), fit.actualRenderedWidth], Num(originalWidth)],
     finalY |-> NumMul[NumDiv[Num(pin.y), fit.actualRenderedHeight], Num(originalHeight)]]

\* lines 131-138: pinXOnImage, relativeX, finalX and the same for y
PinOnImage(pin, originalWidth, originalHeight, fit) ==
    [finalX |-> NumMul[NumDiv[NumSub[Num(pin.x), fit.paddingX], fit.actualRenderedWidth],
                       Num(originalWidth)],
     finalY |-> NumMul[NumDiv[NumSub[Num(pin.y), fit.paddingY], fit.actualRenderedHeight],
                       Num(originalHeight)]]

PinToNative(pin, originalWidth, originalHeight, renderedWidth, renderedHeight) ==
    PinOnImage(pin, originalWidth, originalHeight,
               ContainFit(originalWidth, originalHeight, renderedWidth, renderedHeight))

(***************************************************************************)
(* The inputs of a run.                                                    *)
(***************************************************************************)
\* the subject files, and the background files, the user can pick
Files == {1, 2}

\* native size of background file f, as ImageUploader reads it (naturalWidth/Height)
BackgroundWidth(f)  == IF f % 2 = 1 THEN 1000 ELSE 500
BackgroundHeight(f) == IF f % 2 = 1 THEN 500 ELSE 1000

\* native size of subject file f
SubjectWidth(f)  == 640
SubjectHeight(f) == 480

\* native size of the cut-out the extraction service returns for subject file f
ExtractedWidth(f)  == IF f % 2 = 1 THEN 200 ELSE 20
ExtractedHeight(f) == IF f % 2 = 1 THEN 100 ELSE 10

FileInfo(f, w, h) == [name |-> f, width |-> w, height |-> h]

\* offsetWidth / offsetHeight the layout gives the rendered background image
InitialBox == [offsetWidth |-> 512, offsetHeight |-> 512]
Boxes == {InitialBox, [offsetWidth |-> 512, offsetHeight |-> 256]}

\* drop points, relative to the background container
Points == {[x |-> 256, y |-> 128], [x |-> 0, y |-> 256]}

\* values of the range input: min="0.1", max="3", in steps of 0.05
SliderMin == Round[1, 10]
SliderMax == Num(3)
SliderValues == {SliderMin, SliderMax}

Null == [null |-> TRUE]

NotReadyMessage == "Please upload both images and place the vehicle on the scene."
ExtractMessage  == "Failed to extract vehicle: "
GenerateMessage == "An error occurred during generation: "
Message(text) == [message |-> text]

(***************************************************************************)
(* State.                                                                  *)
(***************************************************************************)
VARIABLES
    subjectVehicle,    \* useState: FileInfo or Null
    backgroundScene,   \* useState: FileInfo or Null
    isExtracting,      \* useState
    extractedVehicle,  \* useState: [src, width, height] or Null
    vehiclePosition,   \* useState: PinPosition or Null
    vehicleScale,      \* useState: a Number
    generatedImage,    \* useState: the blend service's result or Null
    isLoading,         \* useState
    error,             \* useState: Message or Null
    renderBox,         \* offsetWidth / offsetHeight of the rendered background image
    uploads,           \* ImageUploader.handleFile reads in flight
    nUploads,          \* handleFile calls so far
    extractions,       \* handleSubjectUpload executions in flight
    generations,       \* handleGenerate executions in flight, in the order they started
    noAnchorError,     \* the error the last handleGenerate call without an anchor set
    notReadyError,     \* the error the last handleGenerate call with an anchor but no foreground set
    mapIn,             \* inputs of a part of handleGenerate applied on its own
    mapOut,            \* its results
    dropBox,           \* history: the render box at the last handleVehicleDrop that was followed
    pinPosition,       \* ImageDisplay: the pinPosition prop, PinPosition or Null
    imgDims            \* ImageDisplay: useState, width and height of the rendered image

appState == <<subjectVehicle, backgroundScene, isExtracting, extractedVehicle,
              vehiclePosition, vehicleScale, generatedImage, isLoading, error>>
envState == <<renderBox, uploads, nUploads, extractions, generations>>
auxState == <<noAnchorError, notReadyError, mapIn, mapOut, dropBox>>
displayState == <<pinPosition, imgDims>>
vars     == <<appState, envState, auxState, displayState>>

\* renderContent shows the composition view, and with it the two refs
CompositionView == subjectVehicle # Null /\ backgroundScene # Null

AppInit ==
    /\ subjectVehicle = Null
    /\ backgroundScene = Null
    /\ isExtracting = FALSE
    /\ extractedVehicle = Null
    /\ vehiclePosition = Null
    /\ vehicleScale = Num(1)
    /\ generatedImage = Null
    /\ isLoading = FALSE
    /\ error = Null
    /\ renderBox = InitialBox
    /\ uploads = {}
    /\ nUploads = 0
    /\ extractions = {}
    /\ generations = <<>>
    /\ noAnchorError = Null
    /\ notReadyError = Null
    /\ dropBox = Null

\* ImageDisplay as mounted: no pin, imgDims as useState sets it (line 387)
DisplayInit ==
    /\ pinPosition = Null
    /\ imgDims = [width |-> 0, height |-> 0]

Init ==
    /\ AppInit
    /\ DisplayInit
    /\ mapIn = Null
    /\ mapOut = Null

(***************************************************************************)
(* ImageUploader: a picked file is read, decoded, and handed to the        *)
(* onImageUpload callback captured when the file was picked.               *)
(***************************************************************************)
\* renderContent mounts an uploader only while its image is missing
UploaderShown(target) ==
    IF target = "subject" THEN subjectVehicle = Null ELSE backgroundScene = Null

\* handleFile on an image file that is not being read already
HandleFile(target, f) ==
    /\ UploaderShown(target)
    /\ \A u \in uploads : ~(u.target = target /\ u.file = f)
    /\ nUploads < MaxUploads
    /\ uploads' = uploads \cup {[target |-> target, file |-> f]}
    /\ nUploads' = nUploads + 1
    /\ UNCHANGED <<appState, renderBox, extractions, generations, auxState, displayState>>

(***************************************************************************)
(* App: the upload handlers.                                               *)
(***************************************************************************)
\* faulty variant of handleSubjectUpload: the position is reset as well
handleSubjectUploadClearsPosition(fileInfo) ==
    /\ subjectVehicle' = fileInfo
    /\ extractedVehicle' = Null
    /\ generatedImage' = Null
    /\ error' = Null
    /\ isExtracting' = TRUE
    /\ vehiclePosition' = Null
    /\ extractions' = extractions \cup {[file |-> fileInfo.name, pc |-> "extractVehicle"]}
    /\ UNCHANGED <<backgroundScene, vehicleScale, isLoading>>

\* the synchronous part of handleSubjectUpload, up to the await
handleSubjectUpload(fileInfo) ==
    /\ subjectVehicle' = fileInfo
    /\ extractedVehicle' = Null
    /\ generatedImage' = Null
    /\ error' = Null
    /\ isExtracting' = TRUE
    /\ extractions' = extractions \cup {[file |-> fileInfo.name, pc |-> "extractVehicle"]}
    /\ UNCHANGED <<backgroundScene, vehiclePosition, vehicleScale, isLoading>>

\* lines 60-65
handleBackgroundUpload(fileInfo) ==
    /\ backgroundScene' = fileInfo
    /\ vehiclePosition' = Null
    /\ generatedImage' = Null
    /\ error' = Null
    /\ UNCHANGED <<subjectVehicle, isExtracting, extractedVehicle, vehicleScale, isLoading,
                   extractions>>

\* reader.onload, then img.onload of ImageUploader: onImageUpload is called
\* with the file's FileInfo
SubjectUploaded(u) ==
    /\ u \in uploads
    /\ u.target = "subject"
    /\ uploads' = uploads \ {u}
    /\ handleSubjectUpload(FileInfo(u.file, SubjectWidth(u.file), SubjectHeight(u.file)))
    /\ UNCHANGED <<renderBox, nUploads, generations, auxState, displayState>>

BackgroundUploaded(u) ==
    /\ u \in uploads
    /\ u.target = "background"
    /\ uploads' = uploads \ {u}
    /\ handleBackgroundUpload(FileInfo(u.file, BackgroundWidth(u.file), BackgroundHeight(u.file)))
    /\ UNCHANGED <<renderBox, nUploads, generations, auxState, displayState>>

(***************************************************************************)
(* handleSubjectUpload after the await: the extraction call settles, then  *)
(* the cut-out image loads.                                                *)
(***************************************************************************)
\* extractVehicle resolves: a new Image is given the result; finally
ExtractResolved(x) ==
    /\ x \in extractions
    /\ x.pc = "extractVehicle"
    /\ extractions' = (extractions \ {x}) \cup {[x EXCEPT !.pc = "imgLoad"]}
    /\ isExtracting' = FALSE
    /\ UNCHANGED <<subjectVehicle, backgroundScene, extractedVehicle, vehiclePosition,
                   vehicleScale, generatedImage, isLoading, error>>
    /\ UNCHANGED <<renderBox, uploads, nUploads, generations, auxState, displayState>>

\* extractVehicle rejects: catch, finally
ExtractRejected(x) ==
    /\ x \in extractions
    /\ x.pc = "extractVehicle"
    /\ extractions' = extractions \ {x}
    /\ error' = Message(ExtractMessage)
    /\ isExtracting' = FALSE
    /\ UNCHANGED <<subjectVehicle, backgroundScene, extractedVehicle, vehiclePosition,
                   vehicleScale, generatedImage, isLoading>>
    /\ UNCHANGED <<renderBox, uploads, nUploads, generations, auxState, displayState>>

\* bgImage?.offsetWidth || container?.offsetWidth || 512: both refs are set
\* exactly in the composition view, where the image's width is positive
backgroundRenderWidth == IF CompositionView THEN renderBox.offsetWidth ELSE 512

baseScale(naturalWidth) == NumDiv[NumDiv[Num(backgroundRenderWidth), Num(4)], Num(naturalWidth)]

\* img.onload of the cut-out
ExtractedImageLoaded(x) ==
    /\ x \in extractions
    /\ x.pc = "imgLoad"
    /\ extractions' = extractions \ {x}
    /\ extractedVehicle' = [src |-> x.file, width |-> ExtractedWidth(x.file),
                            height |-> ExtractedHeight(x.file)]
    /\ vehicleScale' = baseScale(ExtractedWidth(x.file))
    /\ UNCHANGED <<subjectVehicle, backgroundScene, isExtracting, vehiclePosition,
                   generatedImage, isLoading, error>>
    /\ UNCHANGED <<renderBox, uploads, nUploads, generations, auxState, displayState>>

\* the cut-out fails to load: img has no onerror, nothing is set
ExtractedImageFailed(x) ==
    /\ x \in extractions
    /\ x.pc = "imgLoad"
    /\ extractions' = extractions \ {x}
    /\ UNCHANGED <<appState, renderBox, uploads, nUploads, generations, auxState, displayState>>

\* a read or decode of ImageUploader fails: neither has an error handler
UploadFailed(u) ==
    /\ u \in uploads
    /\ uploads' = uploads \ {u}
    /\ UNCHANGED <<appState, renderBox, nUploads, extractions, generations, auxState, displayState>>

(***************************************************************************)
(* App: placement, scale, layout.                                          *)
(***************************************************************************)
\* the drop is taken when the container is mounted and the drag started on
\* the cut-out shown in the panel ('application/vehicle-id')
handleVehicleDrop(point) ==
    /\ CompositionView
    /\ extractedVehicle # Null
    /\ vehiclePosition' = point
    /\ UNCHANGED <<subjectVehicle, backgroundScene, isExtracting, extractedVehicle,
                   vehicleScale, generatedImage, isLoading, error>>
    /\ UNCHANGED <<envState, noAnchorError, notReadyError, mapIn, mapOut, displayState>>

\* onChange of the vehicle-scale range input
ScaleChanged(value) ==
    /\ CompositionView
    /\ extractedVehicle # Null
    /\ value # vehicleScale
    /\ vehicleScale' = value
    /\ UNCHANGED <<subjectVehicle, backgroundScene, isExtracting, extractedVehicle,
                   vehiclePosition, generatedImage, isLoading, error>>
    /\ UNCHANGED <<envState, auxState, displayState>>

\* the layout gives the rendered background image another size (the image is
\* mounted in the composition view only)
Resized(box) ==
    /\ CompositionView
    /\ box # renderBox
    /\ renderBox' = box
    /\ UNCHANGED <<appState, uploads, nUploads, extractions, generations, auxState, displayState>>

(***************************************************************************)
(* App: handleGenerate.                                                    *)
(***************************************************************************)
\* faulty variant of isGenerateDisabled: the button stays enabled while loading
isGenerateDisabledIgnoresLoading ==
    extractedVehicle = Null \/ backgroundScene = Null \/ vehiclePosition = Null

isGenerateDisabled ==
    extractedVehicle = Null \/ backgroundScene = Null \/ vehiclePosition = Null \/ isLoading

\* the guard that opens handleGenerate
NotReady == extractedVehicle = Null \/ backgroundScene = Null \/ vehiclePosition = Null

\* the guard's return: one message, whatever is missing
GenerateRefused ==
    /\ error' = Message(NotReadyMessage)
    /\ noAnchorError' = IF vehiclePosition = Null THEN Message(NotReadyMessage) ELSE noAnchorError
    /\ notReadyError' = IF vehiclePosition # Null /\ extractedVehicle = Null
                        THEN Message(NotReadyMessage) ELSE notReadyError
    /\ UNCHANGED <<subjectVehicle, backgroundScene, isExtracting, extractedVehicle,
                   vehiclePosition, vehicleScale, generatedImage, isLoading>>
    /\ UNCHANGED generations

\* getContext('2d') gave null: the throw is caught in the same run; finally
GenerateThrows ==
    /\ error' = Message(GenerateMessage)
    /\ isLoading' = FALSE
    /\ generatedImage' = Null
    /\ UNCHANGED <<subjectVehicle, backgroundScene, isExtracting, extractedVehicle,
                   vehiclePosition, vehicleScale>>
    /\ UNCHANGED <<generations, noAnchorError, notReadyError>>

\* the run up to the await of the two image loads; the values handleGenerate
\* goes on to use are those of the render it was created in
GenerateStarts ==
    /\ error' = Null
    /\ isLoading' = TRUE
    /\ generatedImage' = Null
    /\ generations' = Append(generations,
           [pc |-> "awaitImages",
            backgroundScene |-> backgroundScene, extractedVehicle |-> extractedVehicle,
            vehiclePosition |-> vehiclePosition, vehicleScale |-> vehicleScale,
            bgImg |-> "loading", vehicleImg |-> "loading", composite |-> Null])
    /\ UNCHANGED <<subjectVehicle, backgroundScene, isExtracting, extractedVehicle,
                   vehiclePosition, vehicleScale>>
    /\ UNCHANGED <<noAnchorError, notReadyError>>

\* faulty variant of handleGenerate: isLoading is set before the guard
handleGenerateLoadsFirst(ctx) ==
    /\ IF NotReady
       THEN /\ error' = Message(NotReadyMessage)
            /\ isLoading' = TRUE
            /\ UNCHANGED <<subjectVehicle, backgroundScene, isExtracting, extractedVehicle,
                           vehiclePosition, vehicleScale, generatedImage>>
            /\ UNCHANGED <<generations, noAnchorError, notReadyError>>
       ELSE IF ctx THEN GenerateStarts ELSE GenerateThrows
    /\ UNCHANGED <<renderBox, uploads, nUploads, extractions, mapIn, mapOut, dropBox, displayState>>

\* ctx: whether canvas.getContext('2d') gives a context
handleGenerate(ctx) ==
    /\ IF NotReady THEN GenerateRefused
       ELSE IF ctx THEN GenerateStarts
       ELSE GenerateThrows
    /\ UNCHANGED <<renderBox, uploads, nUploads, extractions, mapIn, mapOut, dropBox, displayState>>

\* onClick of the Generate button, which is disabled={isGenerateDisabled}
GenerateClicked(ctx) ==
    /\ ~isGenerateDisabled
    /\ handleGenerate(ctx)

\* handleGenerate called with an input missing, which the button does not
\* allow; a call that finds the error already shown changes nothing
GenerateCalled(ctx) ==
    /\ NotReady
    /\ handleGenerate(ctx)

\* faulty variant of Drawn: the rectangle is kept inside the canvas
DrawnClamped(g, final, vehicleDrawWidth, vehicleDrawHeight) ==
    [width |-> g.backgroundScene.width, height |-> g.backgroundScene.height,
     background |-> g.backgroundScene.name, vehicle |-> g.extractedVehicle.src,
     finalX |-> final.finalX, finalY |-> final.finalY,
     vehicleScale |-> g.vehicleScale,
     x |-> IF NumGe(NumSub[final.finalX, NumDiv[vehicleDrawWidth, Num(2)]], Num(0))
           THEN NumSub[final.finalX, NumDiv[vehicleDrawWidth, Num(2)]] ELSE Num(0),
     y |-> IF NumGe(NumSub[final.finalY, NumDiv[vehicleDrawHeight, Num(2)]], Num(0))
           THEN NumSub[final.finalY, NumDiv[vehicleDrawHeight, Num(2)]] ELSE Num(0),
     vehicleDrawWidth |-> vehicleDrawWidth, vehicleDrawHeight |-> vehicleDrawHeight]

\* lines 140-150: the vehicle's rectangle, centred on the mapped pin
Drawn(g, final, vehicleDrawWidth, vehicleDrawHeight) ==
    [width |-> g.backgroundScene.width, height |-> g.backgroundScene.height,
     background |-> g.backgroundScene.name, vehicle |-> g.extractedVehicle.src,
     finalX |-> final.finalX, finalY |-> final.finalY,
     vehicleScale |-> g.vehicleScale,
     x |-> NumSub[final.finalX, NumDiv[vehicleDrawWidth, Num(2)]],
     y |-> NumSub[final.finalY, NumDiv[vehicleDrawHeight, Num(2)]],
     vehicleDrawWidth |-> vehicleDrawWidth, vehicleDrawHeight |-> vehicleDrawHeight]

\* faulty variant of Compose: the pin is mapped with the image's size on
\* screen as it was when the view was mounted
ComposeInitialBox(g) ==
    Drawn(g,
          PinToNative(g.vehiclePosition, g.backgroundScene.width, g.backgroundScene.height,
                      InitialBox.offsetWidth, InitialBox.offsetHeight),
          NumMul[Num(g.extractedVehicle.width), g.vehicleScale],
          NumMul[Num(g.extractedVehicle.height), g.vehicleScale])

\* lines 105-160: the canvas takes the background's native size, the pin is
\* mapped with the image's size on screen as it is now, the vehicle is drawn
Compose(g) ==
    Drawn(g,
          PinToNative(g.vehiclePosition, g.backgroundScene.width, g.backgroundScene.height,
                      renderBox.offsetWidth, renderBox.offsetHeight),
          NumMul[Num(g.extractedVehicle.width), g.vehicleScale],
          NumMul[Num(g.extractedVehicle.height), g.vehicleScale])

Other(img) == IF img = "bgImg" THEN "vehicleImg" ELSE "bgImg"

\* the runs of handleGenerate without run i
Without(i) == SubSeq(generations, 1, i - 1) \o SubSeq(generations, i + 1, Len(generations))

\* faulty variant of ImageLoaded: the drawing uses the scale of the latest
\* render, not the one the run was started with
ImageLoadedCurrentScale(i, img) ==
    /\ i \in DOMAIN generations
    /\ generations[i].pc = "awaitImages"
    /\ generations[i][img] = "loading"
    /\ generations' =
           IF generations[i][Other(img)] = "loaded"
           THEN [generations EXCEPT ![i] = [@ EXCEPT ![img] = "loaded",
                                                     !.pc = "blendVehicleIntoScene",
                                                     !.composite = Compose([generations[i] EXCEPT
                                                         !.vehicleScale = vehicleScale])]]
           ELSE [generations EXCEPT ![i] = [@ EXCEPT ![img] = "loaded"]]
    /\ UNCHANGED <<appState, renderBox, uploads, nUploads, extractions, auxState, displayState>>

\* onload of bgImg or vehicleImg of run i; with both loaded Promise.all
\* resolves and handleGenerate runs on to the blendVehicleIntoScene call
ImageLoaded(i, img) ==
    /\ i \in DOMAIN generations
    /\ generations[i].pc = "awaitImages"
    /\ generations[i][img] = "loading"
    /\ generations' =
           IF generations[i][Other(img)] = "loaded"
           THEN [generations EXCEPT ![i] = [@ EXCEPT ![img] = "loaded",
                                                     !.pc = "blendVehicleIntoScene",
                                                     !.composite = Compose(generations[i])]]
           ELSE [generations EXCEPT ![i] = [@ EXCEPT ![img] = "loaded"]]
    /\ UNCHANGED <<appState, renderBox, uploads, nUploads, extractions, auxState, displayState>>

\* bgImg or vehicleImg fails to load: only onload is set, so the promise
\* awaited for it never settles and this run of handleGenerate never resumes;
\* nothing it holds is used again
ImageFailed(i, img) ==
    /\ i \in DOMAIN generations
    /\ generations[i].pc = "awaitImages"
    /\ generations[i][img] = "loading"
    /\ generations' = [generations EXCEPT ![i] = [pc |-> "neverSettles"]]
    /\ UNCHANGED <<appState, renderBox, uploads, nUploads, extractions, auxState, displayState>>

\* faulty variant of BlendRejected: the finally block is missing
BlendRejectedNoFinally(i) ==
    /\ i \in DOMAIN generations
    /\ generations[i].pc = "blendVehicleIntoScene"
    /\ generations' = Without(i)
    /\ error' = Message(GenerateMessage)
    /\ UNCHANGED <<subjectVehicle, backgroundScene, isExtracting, extractedVehicle,
                   vehiclePosition, vehicleScale, generatedImage, isLoading>>
    /\ UNCHANGED <<renderBox, uploads, nUploads, extractions, auxState, displayState>>

\* blendVehicleIntoScene resolves: setGeneratedImage(result); finally
BlendResolved(i) ==
    /\ i \in DOMAIN generations
    /\ generations[i].pc = "blendVehicleIntoScene"
    /\ generations' = Without(i)
    /\ generatedImage' = [blendOf |-> generations[i].composite]
    /\ isLoading' = FALSE
    /\ UNCHANGED <<subjectVehicle, backgroundScene, isExtracting, extractedVehicle,
                   vehiclePosition, vehicleScale, error>>
    /\ UNCHANGED <<renderBox, uploads, nUploads, extractions, auxState, displayState>>

\* blendVehicleIntoScene rejects: catch, finally
BlendRejected(i) ==
    /\ i \in DOMAIN generations
    /\ generations[i].pc = "blendVehicleIntoScene"
    /\ generations' = Without(i)
    /\ error' = Message(GenerateMessage)
    /\ isLoading' = FALSE
    /\ UNCHANGED <<subjectVehicle, backgroundScene, isExtracting, extractedVehicle,
                   vehiclePosition, vehicleScale, generatedImage>>
    /\ UNCHANGED <<renderBox, uploads, nUploads, extractions, auxState, displayState>>

(***************************************************************************)
(* The application driven through its user interface.                      *)
(***************************************************************************)
Targets == {"subject", "background"}
Images  == {"bgImg", "vehicleImg"}

PickFile        == \E target \in Targets, f \in Files : HandleFile(target, f)
FileFailed      == \E u \in uploads : UploadFailed(u)
SubjectDecoded  == \E u \in uploads : SubjectUploaded(u)
BackgroundDecoded == \E u \in uploads : BackgroundUploaded(u)
ExtractDone     == \E x \in extractions : ExtractResolved(x)
ExtractError    == \E x \in extractions : ExtractRejected(x)
CutoutLoaded    == \E x \in extractions : ExtractedImageLoaded(x)
CutoutFailed    == \E x \in extractions : ExtractedImageFailed(x)
Drop            == (\E point \in Points : handleVehicleDrop(point)) /\ UNCHANGED dropBox
Slide           == \E value \in SliderValues : ScaleChanged(value)
Resize          == \E box \in Boxes : Resized(box)
Click           == \E ctx \in BOOLEAN : GenerateClicked(ctx)
LoadImage       == \E i \in DOMAIN generations, img \in Images : ImageLoaded(i, img)
FailImage       == \E i \in DOMAIN generations, img \in Images : ImageFailed(i, img)
BlendDone       == \E i \in DOMAIN generations : BlendResolved(i)
BlendError      == \E i \in DOMAIN generations : BlendRejected(i)

Next ==
    \/ PickFile
    \/ FileFailed
    \/ SubjectDecoded
    \/ BackgroundDecoded
    \/ ExtractDone
    \/ ExtractError
    \/ CutoutLoaded
    \/ CutoutFailed
    \/ Drop
    \/ Slide
    \/ Resize
    \/ Click
    \/ LoadImage
    \/ FailImage
    \/ BlendDone
    \/ BlendError

Spec == Init /\ [][Next]_vars

\* the browser settles what a run of handleGenerate waits for: each image
\* fires load or error, the blend call resolves or rejects
Settle == LoadImage \/ FailImage \/ BlendDone \/ BlendError

FairSpec == Spec /\ WF_vars(Settle)

\* handleGenerate also called while an input is missing
Call == \E ctx \in BOOLEAN : GenerateCalled(ctx)

ApiNext == Next \/ Call

ApiSpec == Init /\ [][ApiNext]_vars

(***************************************************************************)
(* C1 - C8: the session.                                                   *)
(***************************************************************************)
\* C1: every request that sets isLoading eventually resets it, whatever the
\* outcome of the image loads and of the blend call
C1_ComposingEnds == isLoading ~> ~isLoading

\* C2: at most one run of handleGenerate is between its start and its
\* finally block, and isLoading is set while there is one
C2_OneGenerateAtATime ==
    /\ Len(generations) <= 1
    /\ generations # <<>> => isLoading

\* a run is in flight and only isLoading keeps the button disabled
C2_Witness ==
    /\ Len(generations) = 1
    /\ ~NotReady
    /\ isGenerateDisabled

\* run i was started with another anchor or scale than the current ones
Stale(i) ==
    \/ generations[i].vehiclePosition # vehiclePosition
    \/ generations[i].vehicleScale # vehicleScale

\* C3: the blend result of a run whose anchor or scale was changed while it
\* was in flight is not stored as generatedImage
C3_StaleResultDiscarded ==
    [][\A i \in DOMAIN generations :
          (generations[i].pc = "blendVehicleIntoScene" /\ Stale(i))
              => generatedImage' # [blendOf |-> generations[i].composite]]_vars

\* C4: handleBackgroundUpload leaves the anchor unset and the session not
\* loading, whatever the state it is called in
C4_NewBackgroundEmpties ==
    [][BackgroundDecoded => (vehiclePosition' = Null /\ ~isLoading')]_vars

InSliderRange(scale) == NumGe(scale, SliderMin) /\ NumLe(scale, SliderMax)

\* C6: whenever the vehicle is drawn, the scale it is drawn with is in [0.1, 3]
C6_ComposeScaleInRange ==
    \A i \in DOMAIN generations :
        generations[i].pc = "blendVehicleIntoScene"
            => InSliderRange(generations[i].composite.vehicleScale)

\* C7: only handleVehicleDrop, which sets it, and handleBackgroundUpload,
\* which clears it, change vehiclePosition
C7_AnchorFrame ==
    [][/\ vehiclePosition' # vehiclePosition => (Drop \/ BackgroundDecoded)
       /\ Drop => vehiclePosition' \in Points
       /\ BackgroundDecoded => vehiclePosition' = Null]_vars

\* the anchor is set and a request has completed
C7_Witness == vehiclePosition # Null /\ generatedImage # Null

\* a run of handleGenerate fails: the blend call rejects, or the run throws
\* before its first await
GenerateFails == BlendError \/ GenerateClicked(FALSE)

\* a blendVehicleIntoScene call is made in this step
BlendCalled ==
    \E i \in DOMAIN generations' :
        /\ generations'[i].pc = "blendVehicleIntoScene"
        /\ i \in DOMAIN generations => generations[i].pc # "blendVehicleIntoScene"

Dims == (1 .. MaxDim) \X (1 .. MaxDim)

\* the background and the box of the worked example: 1000x500 in 400x400
ExampleNative == <<1000, 500>>
ExampleBox    == <<400, 400>>
Pins          == {[x |-> 200, y |-> 100], [x |-> 0, y |-> 100]}

MapInputs ==
    {[native |-> native, box |-> box, pin |-> pin] :
        native \in Dims \cup {ExampleNative}, box \in Dims \cup {ExampleBox}, pin \in Pins}

MapInit ==
    /\ AppInit
    /\ DisplayInit
    /\ mapIn \in MapInputs
    /\ mapOut = Null

\* lines 113-138 on mapIn
MapPin ==
    /\ mapOut = Null
    /\ mapOut' = [fit    |-> ContainFit(mapIn.native[1], mapIn.native[2],
                                        mapIn.box[1], mapIn.box[2]),
                  native |-> PinToNative(mapIn.pin, mapIn.native[1], mapIn.native[2],
                                         mapIn.box[1], mapIn.box[2])]
    /\ UNCHANGED <<appState, envState, noAnchorError, notReadyError, mapIn, dropBox, displayState>>

MapNext == MapPin

MapSpec == MapInit /\ [][MapNext]_vars

(***************************************************************************)
(* C9, C10: the contain-fit mapping.                                       *)
(***************************************************************************)
Mapped == mapOut # Null

MappedExample(pin) ==
    /\ Mapped
    /\ mapIn.native = ExampleNative
    /\ mapIn.box = ExampleBox
    /\ mapIn.pin = pin

\* C9 as claimed: for the 1000x500 background in the 400x400 box, the render
\* point (200,100) is mapped to the native point (0,0)
C9_PinMapsToOrigin ==
    MappedExample([x |-> 200, y |-> 100])
        => mapOut.native = [finalX |-> Num(0), finalY |-> Num(0)]

\* C9 amended: for the 1000x500 background in the 400x400 box the image is
\* drawn 400x200 with paddingX 0 and paddingY 100; the render point (200,100)
\* is mapped to the native point (500,0), the middle of the top edge, and the
\* render point (0,100) to the native point (0,0)
C9_PinMapsToTopCentre ==
    /\ MappedExample([x |-> 200, y |-> 100])
          => /\ mapOut.fit = [actualRenderedWidth |-> Num(400), actualRenderedHeight |-> Num(200),
                              paddingX |-> Num(0), paddingY |-> Num(100)]
             /\ mapOut.native = [finalX |-> Num(500), finalY |-> Num(0)]
    /\ MappedExample([x |-> 0, y |-> 100])
          => mapOut.native = [finalX |-> Num(0), finalY |-> Num(0)]

C9_Witness == MappedExample([x |-> 200, y |-> 100])

\* C10 as claimed: the fitted size is within the box, equal to it on at least
\* one axis; both paddings are >= 0 and at least one is 0
C10_ContainFitExact ==
    Mapped =>
        /\ NumLe(mapOut.fit.actualRenderedWidth, Num(mapIn.box[1]))
        /\ NumLe(mapOut.fit.actualRenderedHeight, Num(mapIn.box[2]))
        /\ \/ mapOut.fit.actualRenderedWidth = Num(mapIn.box[1])
           \/ mapOut.fit.actualRenderedHeight = Num(mapIn.box[2])
        /\ NumGe(mapOut.fit.paddingX, Num(0))
        /\ NumGe(mapOut.fit.paddingY, Num(0))
        /\ mapOut.fit.paddingX = Num(0) \/ mapOut.fit.paddingY = Num(0)

\* a is at most b * (1 + 2^(1-MantBits)): b, or the Number next above b
WithinRounding(a, b) ==
    a.n * b.d * Pow2[MantBits - 1] <= b.n * a.d * (Pow2[MantBits - 1] + 1)

\* C10 amended: the fitted size equals the box on at least one axis and on
\* the other exceeds it by no more than one rounding step of the quotient
\* (a factor 1 + 2^(1-MantBits)); one padding is exactly 0 and the other is
\* >= 0 up to half that step
C10_ContainFitWithinRounding ==
    Mapped =>
        /\ WithinRounding(mapOut.fit.actualRenderedWidth, Num(mapIn.box[1]))
        /\ WithinRounding(mapOut.fit.actualRenderedHeight, Num(mapIn.box[2]))
        /\ \/ mapOut.fit.actualRenderedWidth = Num(mapIn.box[1])
           \/ mapOut.fit.actualRenderedHeight = Num(mapIn.box[2])
        /\ mapOut.fit.paddingX.n * Pow2[MantBits] >= -(mapIn.box[1] * mapOut.fit.paddingX.d)
        /\ mapOut.fit.paddingY.n * Pow2[MantBits] >= -(mapIn.box[2] * mapOut.fit.paddingY.d)
        /\ mapOut.fit.paddingX = Num(0) \/ mapOut.fit.paddingY = Num(0)

\* a fit that exceeds the box by a rounding step
C10_Witness ==
    /\ Mapped
    /\ \/ NumGt(mapOut.fit.actualRenderedWidth, Num(mapIn.box[1]))
       \/ NumGt(mapOut.fit.actualRenderedHeight, Num(mapIn.box[2]))

(***************************************************************************)
(* The drawing of handleGenerate (lines 105-150) applied on its own, to    *)
(* enumerated native anchors, cut-out sizes and scales.                    *)
(***************************************************************************)
ExampleAnchor  == [finalX |-> Num(500), finalY |-> Num(250)]
ExampleVehicle == <<200, 100>>

\* native anchors: inside the raster, on its corner, outside it, not integral
Anchors == {ExampleAnchor,
            [finalX |-> Num(0), finalY |-> Num(0)],
            [finalX |-> Num(-5), finalY |-> Num(501)],
            [finalX |-> Round[10, 3], finalY |-> Round[7, 3]]}

Scales == {Num(1), SliderMin, SliderMax, Round[13, 20]}

DrawInputs ==
    [final : Anchors, vehicle : Dims \cup {ExampleVehicle}, vehicleScale : Scales]

\* what a run of handleGenerate holds when it draws
DrawRun ==
    [backgroundScene  |-> FileInfo(1, BackgroundWidth(1), BackgroundHeight(1)),
     extractedVehicle |-> [src |-> 1, width |-> mapIn.vehicle[1], height |-> mapIn.vehicle[2]],
     vehicleScale     |-> mapIn.vehicleScale]

DrawInit ==
    /\ AppInit
    /\ DisplayInit
    /\ mapIn \in DrawInputs
    /\ mapOut = Null

\* lines 105-150 on mapIn
DrawVehicle ==
    /\ mapOut = Null
    /\ mapOut' = Drawn(DrawRun, mapIn.final,
                       NumMul[Num(mapIn.vehicle[1]), mapIn.vehicleScale],
                       NumMul[Num(mapIn.vehicle[2]), mapIn.vehicleScale])
    /\ UNCHANGED <<appState, envState, noAnchorError, notReadyError, mapIn, dropBox, displayState>>

DrawNext == DrawVehicle

DrawSpec == DrawInit /\ [][DrawNext]_vars

\* the exact sum of two Numbers, and the exact half of fw * s
Sum(a, b) == Difference[a, Negate(b)]
HalfOf(size, scale) == Product[Product[Num(size), scale], [n |-> 1, d |-> 2]]

DrawnExample ==
    /\ mapOut # Null
    /\ mapIn.final = ExampleAnchor
    /\ mapIn.vehicle = ExampleVehicle
    /\ mapIn.vehicleScale = Num(1)

\* C12 as claimed: the rectangle drawn goes exactly from
\* (ax - fw*s/2, ay - fh*s/2) to (ax + fw*s/2, ay + fh*s/2), in and out of the
\* raster, which keeps the background's native size
C12_DrawRectangleExact ==
    mapOut # Null =>
        /\ mapOut.x = Difference[mapIn.final.finalX, HalfOf(mapIn.vehicle[1], mapIn.vehicleScale)]
        /\ mapOut.y = Difference[mapIn.final.finalY, HalfOf(mapIn.vehicle[2], mapIn.vehicleScale)]
        /\ Sum(mapOut.x, mapOut.vehicleDrawWidth)
               = Sum(mapIn.final.finalX, HalfOf(mapIn.vehicle[1], mapIn.vehicleScale))
        /\ Sum(mapOut.y, mapOut.vehicleDrawHeight)
               = Sum(mapIn.final.finalY, HalfOf(mapIn.vehicle[2], mapIn.vehicleScale))
        /\ mapOut.width = BackgroundWidth(1) /\ mapOut.height = BackgroundHeight(1)

\* C12 amended: the size drawn is fw*s x fh*s, each product rounded; the
\* corner is (ax - w/2, ay - h/2), each difference rounded, w and h being
\* that size; it is never moved into the raster, which keeps the background's
\* native size; anchor (500,250) with a 200x100 cut-out at scale 1 gives
\* exactly (400,200)-(600,300)
C12_DrawRectangleRounded ==
    mapOut # Null =>
        /\ mapOut.vehicleDrawWidth
               = RoundReduced[Product[Num(mapIn.vehicle[1]), mapIn.vehicleScale]]
        /\ mapOut.vehicleDrawHeight
               = RoundReduced[Product[Num(mapIn.vehicle[2]), mapIn.vehicleScale]]
        /\ mapOut.x = RoundReduced[Difference[mapIn.final.finalX,
                                              Product[mapOut.vehicleDrawWidth, [n |-> 1, d |-> 2]]]]
        /\ mapOut.y = RoundReduced[Difference[mapIn.final.finalY,
                                              Product[mapOut.vehicleDrawHeight, [n |-> 1, d |-> 2]]]]
        /\ mapOut.width = BackgroundWidth(1) /\ mapOut.height = BackgroundHeight(1)
        /\ DrawnExample =>
               /\ mapOut.x = Num(400) /\ mapOut.y = Num(200)
               /\ Sum(mapOut.x, mapOut.vehicleDrawWidth) = Num(600)
               /\ Sum(mapOut.y, mapOut.vehicleDrawHeight) = Num(300)

\* a rectangle drawn that starts left of the raster and above it
C12_Witness ==
    /\ mapOut # Null
    /\ NumGt(Num(0), mapOut.x)
    /\ NumGt(Num(0), mapOut.y)

(***************************************************************************)
(* ImageDisplay: the pin set by a click on the image, the rendered size    *)
(* reported by the load handler and the ResizeObserver, and the overlay    *)
(* style computed in render.                                               *)
(***************************************************************************)
\* contentRect / offsetWidth, offsetHeight of the rendered image
ImgSizes == {[width |-> MaxPx, height |-> h] : h \in 1..MaxPx}

\* the overlayDimensions prop
overlayDimensions == [width |-> 200, height |-> 100]

\* Math.round of half, an integer count of half pixels
MathRound(halves) == (halves + 1) \div 2

MathMax(a, b) == IF NumGe(a, b) THEN a ELSE b
MathMin(a, b) == IF NumLe(a, b) THEN a ELSE b

\* lines 424-434; the click is inside the image's rectangle, at a multiple of
\* half a pixel from its corner
handleImageClick(x, y) ==
    /\ imgDims.width > 0
    /\ x \in 0..(2 * imgDims.width)
    /\ y \in 0..(2 * imgDims.height)
    /\ pinPosition' = [x |-> MathRound(x), y |-> MathRound(y)]
    /\ UNCHANGED <<appState, envState, auxState, imgDims>>

\* lines 393-410: handleLoad, and the ResizeObserver's callback
DimensionsChanged(dims) ==
    /\ dims # imgDims
    /\ imgDims' = dims
    /\ UNCHANGED <<appState, envState, auxState, pinPosition>>

minScale    == Round[2, 10]
maxScale    == Round[12, 10]
maxRotation == Num(75)
minRotation == Num(20)

\* line 437, showOverlay and isInteractive being set
OverlayShown == pinPosition # Null /\ imgDims.width > 0

\* line 444
RelativeY(y, height) == NumDiv[Num(y), Num(height)]

\* line 445
Scale(relativeY) ==
    NumAdd(minScale,
           NumMul[NumSub[maxScale, minScale], MathMin(MathMax(relativeY, Num(0)), Num(1))])

\* line 449
Rotation(relativeY) ==
    NumSub[maxRotation, NumMul[NumSub[maxRotation, minRotation], relativeY]]

\* lines 438-440: baseWidth, baseHeight
BaseWidth == NumMul[Num(imgDims.width), Round[1, 4]]
BaseHeight ==
    NumDiv[BaseWidth, NumDiv[Num(overlayDimensions.width), Num(overlayDimensions.height)]]

\* lines 436-463
overlayStyle ==
    IF OverlayShown
    THEN [left |-> pinPosition.x, top |-> pinPosition.y,
          width |-> BaseWidth, height |-> BaseHeight,
          rotation |-> Rotation(RelativeY(pinPosition.y, imgDims.height)),
          scale |-> Scale(RelativeY(pinPosition.y, imgDims.height))]
    ELSE [display |-> "none"]

Click2 == \E x \in 0..(2 * MaxPx), y \in 0..(2 * MaxPx) : handleImageClick(x, y)
Observe == \E dims \in ImgSizes : DimensionsChanged(dims)

DisplayNext == Click2 \/ Observe

DisplaySpec == Init /\ [][DisplayNext]_vars

\* C11: the overlay's scale lies in [0.2, 1.2] and its rotation in [20, 75],
\* wherever the pin is and whatever the rendered height; they are (0.2, 75)
\* for a pin at the top, (1.2, 20) for a pin at the bottom, and for a pin
\* further up the scale is not larger and the rotation not smaller
C11_DepthHintInRange ==
    OverlayShown =>
        /\ NumGe(overlayStyle.scale, minScale) /\ NumLe(overlayStyle.scale, maxScale)
        /\ NumGe(overlayStyle.rotation, minRotation) /\ NumLe(overlayStyle.rotation, maxRotation)
        /\ pinPosition.y = 0 =>
               overlayStyle.scale = minScale /\ overlayStyle.rotation = maxRotation
        /\ pinPosition.y = imgDims.height =>
               overlayStyle.scale = maxScale /\ overlayStyle.rotation = minRotation
        /\ \A y \in 0..pinPosition.y :
               /\ NumLe(Scale(RelativeY(y, imgDims.height)), overlayStyle.scale)
               /\ NumGe(Rotation(RelativeY(y, imgDims.height)), overlayStyle.rotation)

(***************************************************************************)
(* The anchor and the render box.  handleVehicleDrop (lines 67-77) stores  *)
(* the drop point as it is, relative to the container; the size of the    *)
(* image on screen is read only in handleGenerate (lines 112-114).         *)
(* dropBox remembers the size it had when the anchor was stored.           *)
(***************************************************************************)

DropAt == (\E point \in Points : handleVehicleDrop(point)) /\ dropBox' = renderBox

AnchorNext ==
    \/ PickFile
    \/ FileFailed
    \/ SubjectDecoded
    \/ BackgroundDecoded
    \/ ExtractDone
    \/ ExtractError
    \/ CutoutLoaded
    \/ CutoutFailed
    \/ DropAt
    \/ Slide
    \/ Resize
    \/ Click
    \/ LoadImage
    \/ FailImage
    \/ BlendDone
    \/ BlendError

AnchorSpec == Init /\ [][AnchorNext]_vars

\* run i goes on from Promise.all to the drawing in this step
Composes(i) ==
    /\ i \in DOMAIN generations
    /\ generations[i].pc = "awaitImages"
    /\ Len(generations') = Len(generations)
    /\ generations'[i].pc = "blendVehicleIntoScene"

\* the native point a pin maps to for a run's background and a render box
NativeOf(pin, g, box) ==
    PinToNative(pin, g.backgroundScene.width, g.backgroundScene.height,
                box.offsetWidth, box.offsetHeight)

\* C13: a resize of the rendered image leaves the stored anchor as it is, and
\* a run of handleGenerate maps the anchor it holds with the size the image
\* has on screen when its two images have loaded
C13_AnchorMappedAtCompose ==
    [][/\ renderBox' # renderBox => vehiclePosition' = vehiclePosition
       /\ \A i \in DOMAIN generations :
              Composes(i) =>
                  LET native == NativeOf(generations[i].vehiclePosition, generations[i], renderBox)
                  IN  /\ renderBox' = renderBox
                      /\ generations'[i].composite.finalX = native.finalX
                      /\ generations'[i].composite.finalY = native.finalY]_vars

\* an anchor was set, the image was resized, and a run started with that
\* anchor has drawn the vehicle at another native point than the one the
\* anchor mapped to when it was set
C13_Witness ==
    \E i \in DOMAIN generations :
        /\ generations[i].pc = "blendVehicleIntoScene"
        /\ vehiclePosition # Null
        /\ generations[i].vehiclePosition = vehiclePosition
        /\ dropBox # Null
        /\ dropBox # renderBox
        /\ LET then == NativeOf(vehiclePosition, generations[i], dropBox)
           IN  \/ generations[i].composite.finalX # then.finalX
               \/ generations[i].composite.finalY # then.finalY

(***************************************************************************)
(* Overlapping runs of handleSubjectUpload (lines 27-58).                  *)
(***************************************************************************)

\* an extractVehicle call of some run has not settled yet
ExtractionInFlight == \E x \in extractions : x.pc = "extractVehicle"

\* C14: isExtracting is true whenever an extractVehicle call is in flight,
\* and once no run of handleSubjectUpload is left the cut-out that is stored
\* is the one of the subject uploaded last
C14_LatestExtractionWins ==
    /\ ExtractionInFlight => isExtracting
    /\ (extractions = {} /\ extractedVehicle # Null) =>
           extractedVehicle.src = subjectVehicle.name

(***************************************************************************)
(* What a run of handleGenerate draws.  The function is created anew in    *)
(* every render (line 79), so a run reads backgroundScene,                 *)
(* extractedVehicle, vehiclePosition and vehicleScale of the render in     *)
(* which the button was clicked, also after its awaits (lines 100, 162).   *)
(***************************************************************************)

\* the values a run of handleGenerate holds
Held(g) == <<g.backgroundScene, g.extractedVehicle, g.vehiclePosition, g.vehicleScale>>

\* the drawing is the one of the values run g holds
DrawnFromHeld(g, composite) ==
    /\ composite.width = g.backgroundScene.width
    /\ composite.height = g.backgroundScene.height
    /\ composite.background = g.backgroundScene.name
    /\ composite.vehicle = g.extractedVehicle.src
    /\ composite.vehicleScale = g.vehicleScale
    /\ composite.vehicleDrawWidth = NumMul[Num(g.extractedVehicle.width), g.vehicleScale]
    /\ composite.vehicleDrawHeight = NumMul[Num(g.extractedVehicle.height), g.vehicleScale]
    /\ composite.finalX = NativeOf(g.vehiclePosition, g, renderBox).finalX
    /\ composite.finalY = NativeOf(g.vehiclePosition, g, renderBox).finalY

====
